---------------------------- MODULE Spec2Model ----------------------------
(***************************************************************************)
(* A model of four parts of the concrete repository:                       *)
(*   - the runtime context's per-thread bootstrap key cache                *)
(*     (compiler/lib/Runtime/context.cpp),                                 *)
(*   - the two bootstrap tests of the CUDA backend (test_bootstrap.cpp),   *)
(*   - the decode step those tests apply to a decrypted scalar,            *)
(*   - LibrarySupport's compile / load operations (LibrarySupport.h).      *)
(* Each part has its own specification over the module's variables; the    *)
(* variables of the other parts stay at their initial value.               *)
(***************************************************************************)
EXTENDS Integers, Sequences, FiniteSets, TLC

VARIABLES
  \* ---- runtime context (context.cpp) ----
  parallel,   \* CONCRETELANG_PARALLEL_EXECUTION_ENABLED
  bsk,        \* context->bsk : std::map<std::string, LweBootstrapKey_u64 *>
  ksk,        \* context->ksk
  pc,         \* per thread: position inside get_bootstrap_key
  bskIt,      \* per thread: the iterator bskIt
  tmp,        \* per thread: the clone built as the argument of insert
  ret,        \* per thread: last value returned by get_bootstrap_key
  retKsk,     \* last value returned by get_keyswitch_key
  calls,      \* per thread: calls of get_bootstrap_key started
  made,       \* per thread name: clone_lwe_bootstrap_key_u64 calls made for it
  writers,    \* threads inside std::map::insert
  raced,      \* per thread: its insert overlapped another insert
  crashed,    \* the process died (assert, null dereference, corrupted map)
  late,       \* per thread: its current call began after its name had a key
  first,      \* per thread name: first key get_bootstrap_key returned for it
  \* ---- bootstrap tests (test_bootstrap.cpp) ----
  test,               \* which TEST_P body runs
  number_of_sm,       \* cudaDevAttrMultiProcessorCount of device 0
  glwe_dimension,
  pbs_level,
  lwe_dimension,
  number_of_inputs,
  repetitions,
  samples,
  payload_modulus,    \* message_modulus * carry_modulus
  plaintexts,         \* plaintexts[i]: the scaled message of ciphertext i
  hpc,                \* host position in the test body
  r, s, j,            \* the loop counters
  stream,             \* operations enqueued on the CUDA stream, not yet run
  d_lwe_ct_out_array, \* device output buffer
  lwe_ct_out_array,   \* host output buffer
  copied,             \* (r, s) whose copy-back the device has completed
  launched,           \* kernel launches issued so far
  issued,             \* number of operations ever enqueued on the stream
  compared,           \* plaintext indices compared so far
  cmpCount,           \* number of EXPECT_EQ evaluated
  lastCmp,            \* the last EXPECT_EQ evaluated
  \* ---- decode step on one scalar ----
  dpc,                \* "start", "encoded", "decrypted", "decoded"
  dec_payload,        \* message_modulus * carry_modulus
  message,            \* the message m
  noise,              \* the signed noise e
  plaintext,          \* m * delta
  decrypted,
  decoded,
  \* ---- LibrarySupport (LibrarySupport.h) ----
  outputPath,         \* LibrarySupport::outputPath
  result,             \* the LibraryCompilationResult the caller holds
  compileRet,         \* last compile: its inputs and what it returned
  lambdaRet,          \* last loadServerLambda: its inputs and what it returned
  clientRet           \* last loadClientParameters: inputs and what it returned

ctxVars == <<parallel, bsk, ksk, pc, bskIt, tmp, ret, retKsk, calls, made,
             writers, raced, crashed, late, first>>

testVars == <<test, number_of_sm, glwe_dimension, pbs_level, lwe_dimension,
              number_of_inputs, repetitions, samples, payload_modulus,
              plaintexts, hpc, r, s, j, stream, d_lwe_ct_out_array,
              lwe_ct_out_array, copied, launched, issued, compared, cmpCount,
              lastCmp>>

decVars == <<dpc, dec_payload, message, noise, plaintext, decrypted, decoded>>

libVars == <<outputPath, result, compileRet, lambdaRet, clientRet>>

vars == <<ctxVars, testVars, decVars, libVars>>

(***************************************************************************)
(*                 Runtime context: get_bootstrap_key                      *)
(***************************************************************************)
NumThreads == 3
MaxCalls == 2

Threads == 1..NumThreads
BASE_CONTEXT_BSK == "_concretelang_base_context_bsk"
ThreadNames == {"worker#0", "worker#1"}

\* hpx::get_thread_name(): several threads may carry one name.
ThreadName(t) == IF t % 2 = 1 THEN "worker#0" ELSE "worker#1"

\* Key objects: the null pointer, the base key, the i-th clone made for a
\* thread name, the keyswitch key.
NullKey == [kind |-> "null", name |-> "", id |-> 0]
BaseKey == [kind |-> "base", name |-> "", id |-> 0]
CloneKey(n, i) == [kind |-> "clone", name |-> n, id |-> i]
TheKsk == [kind |-> "ksk", name |-> "", id |-> 0]

EndIt == [end |-> TRUE, key |-> "", second |-> NullKey]
NodeIt(k, v) == [end |-> FALSE, key |-> k, second |-> v]

\* std::map::find on an intact map.
MapFind(m, k) == IF k \in DOMAIN m THEN NodeIt(k, m[k]) ELSE EndIt

\* The map after insert(pair(k, v)): insert-if-absent.
MapInsert(m, k, v) ==
  IF k \in DOMAIN m THEN m
  ELSE [x \in DOMAIN m \cup {k} |-> IF x = k THEN v ELSE m[x]]

Restrict(m, D) == [x \in D |-> m[x]]

\* The key get_bootstrap_key looks up: the thread name in a parallel build,
\* the base entry otherwise.
LookupKey(t) == IF parallel THEN ThreadName(t) ELSE BASE_CONTEXT_BSK

\* What find returns. A find that runs while another thread is inside insert
\* is a data race on the std::map: it may also miss an entry that is there,
\* or the process may die ("crash").
FindOutcomes(m, k, racy) ==
  {[crash |-> FALSE, it |-> MapFind(m, k)]}
    \cup (IF racy THEN {[crash |-> FALSE, it |-> EndIt],
                        [crash |-> TRUE, it |-> EndIt]}
          ELSE {})

\* What an insert leaves behind. An insert that overlapped another insert is
\* a data race: nodes linked by either writer, or reachable only through a
\* pointer one of them overwrote, may be lost; or the process may die.
InsertOutcomes(m, k, v, racy) ==
  {[crash |-> FALSE, map |-> MapInsert(m, k, v), it |-> MapFind(MapInsert(m, k, v), k)]}
    \cup (IF racy
          THEN {[crash |-> FALSE, map |-> Restrict(MapInsert(m, k, v), D),
                 it |-> MapFind(MapInsert(m, k, v), k)]
                  : D \in SUBSET DOMAIN MapInsert(m, k, v)}
               \cup {[crash |-> TRUE, map |-> m, it |-> EndIt]}
          ELSE {})

ClonesMadeFor(n) == made[n]

InitContext ==
  /\ parallel \in BOOLEAN
  /\ bsk = [x \in {BASE_CONTEXT_BSK} |-> BaseKey]
  /\ ksk = TheKsk
  /\ pc = [t \in Threads |-> "idle"]
  /\ bskIt = [t \in Threads |-> EndIt]
  /\ tmp = [t \in Threads |-> NullKey]
  /\ ret = [t \in Threads |-> NullKey]
  /\ retKsk = NullKey
  /\ calls = [t \in Threads |-> 0]
  /\ made = [n \in ThreadNames |-> 0]
  /\ writers = {}
  /\ raced = [t \in Threads |-> FALSE]
  /\ crashed = FALSE
  /\ late = [t \in Threads |-> FALSE]
  /\ first = [n \in ThreadNames |-> NullKey]

IdleContext ==
  /\ parallel = FALSE
  /\ bsk = [x \in {BASE_CONTEXT_BSK} |-> BaseKey]
  /\ ksk = TheKsk
  /\ pc = [t \in Threads |-> "idle"]
  /\ bskIt = [t \in Threads |-> EndIt]
  /\ tmp = [t \in Threads |-> NullKey]
  /\ ret = [t \in Threads |-> NullKey]
  /\ retKsk = NullKey
  /\ calls = [t \in Threads |-> 0]
  /\ made = [n \in ThreadNames |-> 0]
  /\ writers = {}
  /\ raced = [t \in Threads |-> FALSE]
  /\ crashed = FALSE
  /\ late = [t \in Threads |-> FALSE]
  /\ first = [n \in ThreadNames |-> NullKey]

\* The process is gone: the context and every thread with it.
Die ==
  /\ crashed' = TRUE
  /\ bsk' = [x \in {BASE_CONTEXT_BSK} |-> BaseKey]
  /\ pc' = [t \in Threads |-> "dead"]
  /\ bskIt' = [t \in Threads |-> EndIt]
  /\ tmp' = [t \in Threads |-> NullKey]
  /\ ret' = [t \in Threads |-> NullKey]
  /\ retKsk' = NullKey
  /\ calls' = [t \in Threads |-> 0]
  /\ made' = [n \in ThreadNames |-> 0]
  /\ writers' = {}
  /\ raced' = [t \in Threads |-> FALSE]
  /\ late' = [t \in Threads |-> FALSE]
  /\ first' = [n \in ThreadNames |-> NullKey]
  /\ UNCHANGED <<parallel, ksk>>

\* get_keyswitch_key: return context->ksk.
GetKeyswitchKey(t) ==
  /\ ~crashed
  /\ pc[t] = "idle"
  /\ retKsk # ksk
  /\ retKsk' = ksk
  /\ UNCHANGED <<parallel, bsk, ksk, pc, bskIt, tmp, ret, calls, made,
                 writers, raced, crashed, late, first>>
  /\ UNCHANGED <<testVars, decVars, libVars>>

\* Entry of get_bootstrap_key.
Call(t) ==
  /\ ~crashed
  /\ pc[t] = "idle"
  /\ calls[t] < MaxCalls
  /\ calls' = [calls EXCEPT ![t] = @ + 1]
  /\ late' = [late EXCEPT ![t] = (first[ThreadName(t)] # NullKey)]
  /\ pc' = [pc EXCEPT ![t] = "find"]
  /\ UNCHANGED <<parallel, bsk, ksk, bskIt, tmp, ret, retKsk, made,
                 writers, raced, crashed, first>>
  /\ UNCHANGED <<testVars, decVars, libVars>>

\* auto bskIt = context->bsk.find(...); if (bskIt == context->bsk.end())
Find(t) ==
  /\ ~crashed
  /\ pc[t] = "find"
  /\ \E o \in FindOutcomes(bsk, LookupKey(t), writers # {}) :
       IF o.crash THEN Die
       ELSE /\ bskIt' = [bskIt EXCEPT ![t] = o.it]
            /\ pc' = [pc EXCEPT ![t] =
                        IF parallel /\ o.it.end THEN "clone" ELSE "return"]
            /\ UNCHANGED <<parallel, bsk, ksk, tmp, ret, retKsk, calls, made,
                           writers, raced, crashed, late, first>>
  /\ UNCHANGED <<testVars, decVars, libVars>>

\* What evaluating clone_lwe_bootstrap_key_u64(context->bsk[BASE_CONTEXT_BSK])
\* yields: operator[] default-inserts a null pointer when the base entry is
\* gone, and cloning a null key kills the process; a read of the map that
\* races an insert may kill it too.
CloneOutcomes(m, n, count, racy) ==
  (IF BASE_CONTEXT_BSK \in DOMAIN m /\ m[BASE_CONTEXT_BSK] # NullKey
   THEN {[crash |-> FALSE, key |-> CloneKey(n, count + 1)]}
   ELSE {[crash |-> TRUE, key |-> NullKey]})
    \cup (IF racy THEN {[crash |-> TRUE, key |-> NullKey]} ELSE {})

Clone(t) ==
  /\ ~crashed
  /\ pc[t] = "clone"
  /\ \E o \in CloneOutcomes(bsk, ThreadName(t), made[ThreadName(t)], writers # {}) :
       IF o.crash THEN Die
       ELSE /\ made' = [made EXCEPT ![ThreadName(t)] = @ + 1]
            /\ tmp' = [tmp EXCEPT ![t] = o.key]
            /\ pc' = [pc EXCEPT ![t] = "insert"]
            /\ UNCHANGED <<parallel, bsk, ksk, bskIt, ret, retKsk, calls,
                           writers, raced, crashed, late, first>>
  /\ UNCHANGED <<testVars, decVars, libVars>>

\* context->bsk.insert(...) starts: no lock is taken.
InsertBegin(t) ==
  /\ ~crashed
  /\ pc[t] = "insert"
  /\ writers' = writers \cup {t}
  /\ raced' = [u \in Threads |->
                 IF writers # {} /\ u \in writers \cup {t} THEN TRUE ELSE raced[u]]
  /\ pc' = [pc EXCEPT ![t] = "inserting"]
  /\ UNCHANGED <<parallel, bsk, ksk, bskIt, tmp, ret, retKsk, calls, made,
                 crashed, late, first>>
  /\ UNCHANGED <<testVars, decVars, libVars>>

\* context->bsk.insert(...) completes; bskIt = its .first.
InsertEnd(t) ==
  /\ ~crashed
  /\ pc[t] = "inserting"
  /\ \E o \in InsertOutcomes(bsk, ThreadName(t), tmp[t], raced[t]) :
       IF o.crash THEN Die
       ELSE /\ bsk' = o.map
            /\ bskIt' = [bskIt EXCEPT ![t] = o.it]
            /\ writers' = writers \ {t}
            /\ raced' = [raced EXCEPT ![t] = FALSE]
            /\ pc' = [pc EXCEPT ![t] = "return"]
            /\ UNCHANGED <<parallel, ksk, tmp, ret, retKsk, calls, made,
                           crashed, late, first>>
  /\ UNCHANGED <<testVars, decVars, libVars>>

\* assert(bskIt->second && ...); return bskIt->second;
\* Dereferencing end() or failing the assertion ends the process.
Return(t) ==
  /\ ~crashed
  /\ pc[t] = "return"
  /\ IF bskIt[t].end \/ bskIt[t].second = NullKey
     THEN Die
     ELSE /\ ret' = [ret EXCEPT ![t] = bskIt[t].second]
          /\ first' = [first EXCEPT ![ThreadName(t)] =
                         IF @ = NullKey THEN bskIt[t].second ELSE @]
          /\ pc' = [pc EXCEPT ![t] = "idle"]
          /\ UNCHANGED <<parallel, bsk, ksk, bskIt, tmp, retKsk, calls, made,
                         writers, raced, crashed, late>>
  /\ UNCHANGED <<testVars, decVars, libVars>>

(***************************************************************************)
(*                     Decode step of the bootstrap tests                  *)
(***************************************************************************)
\* uint64_t arithmetic, scaled down to Width bits.
Width == 6

RECURSIVE Pow2(_)
Pow2(n) == IF n = 0 THEN 1 ELSE 2 * Pow2(n - 1)

Modulus == Pow2(Width)

\* x & y on Width-bit words.
RECURSIVE BitAndUpTo(_, _, _)
BitAndUpTo(x, y, n) ==
  IF n = 0 THEN 0
  ELSE (IF x % 2 = 1 /\ y % 2 = 1 THEN 1 ELSE 0)
       + 2 * BitAndUpTo(x \div 2, y \div 2, n - 1)

BitAnd(x, y) == BitAndUpTo(x, y, Width)

\* delta = 2^64 / (message_modulus * carry_modulus * 2)
Delta(payload) == Modulus \div (payload * 2)

\* Mutant of Decode: the rounding term is left out.
DecodeNoRounding(dec, d) == dec \div d

\* rounding_bit = delta >> 1; rounding = (decrypted & rounding_bit) << 1;
\* decoded = (decrypted + rounding) / delta
Decode(dec, d) ==
  LET rounding_bit == d \div 2
      rounding == (BitAnd(dec, rounding_bit) * 2) % Modulus
  IN ((dec + rounding) % Modulus) \div d

(***************************************************************************)
(*            The bootstrap tests: host thread and CUDA stream             *)
(***************************************************************************)
MaxSM == 3
MaxGlwe == 2
MaxLevel == 2
MaxInputs == 2
MaxRepetitions == 2
MaxSamples == 2

Tests == {"amortized_bootstrap", "low_latency_bootstrap"}

Total == repetitions * samples * number_of_inputs

\* Mutant of SkipGuard: the factor 4 is left out.
SkipGuardNoFactor(n, sm, k, l) == n > (sm \div (k + 1)) \div l

\* The guard of low_latency_bootstrap, as the test evaluates it.
SkipGuard(n, sm, k, l) == n > ((sm * 4) \div (k + 1)) \div l

\* Offset of the (r, s) input batch in d_lwe_ct_in_array.
InputOffset(rr, ss) ==
  (rr * samples * number_of_inputs + ss * number_of_inputs) * (lwe_dimension + 1)

\* Mutant of PlaintextIndex: s is not scaled by the batch size.
PlaintextIndexNoBatch(rr, ss, jj) == rr * samples * number_of_inputs + ss + jj

\* Index of the plaintext the j-th result of batch (r, s) is compared with.
PlaintextIndex(rr, ss, jj) ==
  rr * samples * number_of_inputs + ss * number_of_inputs + jj

\* Ciphertext i of d_lwe_ct_in_array starts at scalar i * (lwe_dimension + 1)
\* and encrypts plaintexts[i] under the input key of its repetition.
CiphertextAt(offset) == offset \div (lwe_dimension + 1)

Uninit == [val |-> 0, rep |-> -1]

\* Noise a bootstrap leaves in its output: non-zero, below delta / 2.
NoiseSet(d) == {e \in {1 - d \div 2, d \div 2 - 1} : e # 0}

\* The outputs a kernel run may write for the batch at `offset`: output jj
\* carries plaintexts[CiphertextAt(offset) + jj] plus noise, under the
\* output key of repetition rr.
KernelOutputs(offset, rr) ==
  {[jj \in 0..(number_of_inputs - 1) |->
      [val |-> (plaintexts[CiphertextAt(offset) + jj] + e) % Modulus,
       rep |-> rr]]
     : e \in NoiseSet(Delta(payload_modulus))}

\* What memory that holds no ciphertext of the key decrypts to: any scalar;
\* one representative per message slot and rounding direction.
Garbage(d) == {(k * (d \div 2)) % Modulus : k \in 0..(2 * (Modulus \div d) - 1)}

\* concrete_cpu_decrypt_lwe_ciphertext_u64 with the output key of repetition
\* rr: the phase of a ciphertext under that key, anything otherwise.
DecryptOutcomes(ct, rr) ==
  IF ct.rep = rr THEN {ct.val} ELSE Garbage(Delta(payload_modulus))

NoCmp == [r |-> -1, s |-> -1, j |-> -1, index |-> -1, ok |-> TRUE, fresh |-> TRUE]

InitTest ==
  /\ test \in Tests
  /\ number_of_sm = 0
  /\ glwe_dimension \in 1..MaxGlwe
  /\ pbs_level \in 1..MaxLevel
  /\ lwe_dimension = 2
  /\ number_of_inputs \in 1..MaxInputs
  /\ repetitions = MaxRepetitions
  /\ samples = MaxSamples
  /\ payload_modulus = 4
  /\ \E a \in {1, 3} :
       plaintexts = [i \in 0..(Total - 1) |->
                       ((a * i) % payload_modulus) * Delta(payload_modulus)]
  /\ hpc = IF test = "low_latency_bootstrap" THEN "guard" ELSE "launch"
  /\ r = 0
  /\ s = 0
  /\ j = 0
  /\ stream = <<>>
  /\ d_lwe_ct_out_array = [jj \in 0..(number_of_inputs - 1) |-> Uninit]
  /\ lwe_ct_out_array = [jj \in 0..(number_of_inputs - 1) |-> Uninit]
  /\ copied = {}
  /\ launched = {}
  /\ issued = 0
  /\ compared = {}
  /\ cmpCount = 0
  /\ lastCmp = NoCmp

IdleTest ==
  /\ test = "amortized_bootstrap"
  /\ number_of_sm = 0
  /\ glwe_dimension = 1
  /\ pbs_level = 1
  /\ lwe_dimension = 2
  /\ number_of_inputs = 1
  /\ repetitions = 1
  /\ samples = 1
  /\ payload_modulus = 4
  /\ plaintexts = [i \in {0} |-> 0]
  /\ hpc = "idle"
  /\ r = 0
  /\ s = 0
  /\ j = 0
  /\ stream = <<>>
  /\ d_lwe_ct_out_array = [jj \in {0} |-> Uninit]
  /\ lwe_ct_out_array = [jj \in {0} |-> Uninit]
  /\ copied = {}
  /\ launched = {}
  /\ issued = 0
  /\ compared = {}
  /\ cmpCount = 0
  /\ lastCmp = NoCmp

paramVars == <<test, glwe_dimension, pbs_level, lwe_dimension,
               number_of_inputs, repetitions, samples, payload_modulus,
               plaintexts>>

\* int number_of_sm = 0; cudaDeviceGetAttribute(&number_of_sm, ...);
\* if (number_of_inputs > number_of_sm * 4 / (glwe_dimension + 1) / pbs_level)
\*   GTEST_SKIP()
Guard ==
  /\ hpc = "guard"
  /\ \E sm \in 1..MaxSM :
       /\ number_of_sm' = sm
       /\ hpc' = IF SkipGuard(number_of_inputs, sm, glwe_dimension, pbs_level)
                 THEN "skipped" ELSE "launch"
  /\ UNCHANGED <<paramVars, r, s, j, stream, d_lwe_ct_out_array,
                 lwe_ct_out_array, copied, launched, issued, compared,
                 cmpCount, lastCmp>>
  /\ UNCHANGED <<ctxVars, decVars, libVars>>

\* cuda_bootstrap_{amortized,low_latency}_lwe_ciphertext_vector_64(stream, ...)
Launch ==
  /\ hpc = "launch"
  /\ stream' = Append(stream, [op |-> "kernel", r |-> r, s |-> s,
                               in |-> InputOffset(r, s)])
  /\ launched' = launched \cup {[kernel |-> test, r |-> r, s |-> s,
                                 in |-> InputOffset(r, s)]}
  /\ issued' = issued + 1
  /\ hpc' = "copy"
  /\ UNCHANGED <<paramVars, number_of_sm, r, s, j, d_lwe_ct_out_array, lwe_ct_out_array,
                 copied, compared, cmpCount, lastCmp>>
  /\ UNCHANGED <<ctxVars, decVars, libVars>>

\* cuda_memcpy_async_to_cpu(lwe_ct_out_array, d_lwe_ct_out_array, ..., stream)
\* The test goes on to its j loop with no synchronisation in between.
CopyBack ==
  /\ hpc = "copy"
  /\ stream' = Append(stream, [op |-> "copy", r |-> r, s |-> s, in |-> 0])
  /\ issued' = issued + 1
  /\ j' = 0
  /\ hpc' = "read"
  /\ UNCHANGED <<paramVars, number_of_sm, r, s, d_lwe_ct_out_array, lwe_ct_out_array,
                 copied, launched, compared, cmpCount, lastCmp>>
  /\ UNCHANGED <<ctxVars, decVars, libVars>>

\* One iteration of the j loop: decrypt result j, decode, EXPECT_EQ; then the
\* loop increments of j, s and r.
ReadResult ==
  /\ hpc = "read"
  /\ \E dec \in DecryptOutcomes(lwe_ct_out_array[j], r) :
       lastCmp' = [r |-> r, s |-> s, j |-> j,
                   index |-> PlaintextIndex(r, s, j),
                   ok |-> Decode(dec, Delta(payload_modulus))
                            = plaintexts[PlaintextIndex(r, s, j)]
                                \div Delta(payload_modulus),
                   fresh |-> <<r, s>> \in copied]
  /\ compared' = compared \cup {PlaintextIndex(r, s, j)}
  /\ cmpCount' = cmpCount + 1
  /\ IF j + 1 < number_of_inputs
     THEN /\ j' = j + 1
          /\ UNCHANGED <<r, s, hpc>>
     ELSE /\ j' = 0
          /\ IF s + 1 < samples
             THEN /\ s' = s + 1
                  /\ r' = r
                  /\ hpc' = "launch"
             ELSE /\ s' = 0
                  /\ r' = r + 1
                  /\ hpc' = IF r + 1 < repetitions THEN "launch" ELSE "done"
  /\ UNCHANGED <<paramVars, number_of_sm, stream, d_lwe_ct_out_array, lwe_ct_out_array,
                 copied, launched, issued>>
  /\ UNCHANGED <<ctxVars, decVars, libVars>>

\* The device runs the operation at the head of the stream: a kernel writes
\* the device output buffer, a copy moves it to the host buffer.
DeviceKernel ==
  /\ stream # <<>>
  /\ Head(stream).op = "kernel"
  /\ d_lwe_ct_out_array' \in KernelOutputs(Head(stream).in, Head(stream).r)
  /\ stream' = Tail(stream)
  /\ UNCHANGED <<paramVars, number_of_sm, hpc, r, s, j, lwe_ct_out_array, copied, launched,
                 issued, compared, cmpCount, lastCmp>>
  /\ UNCHANGED <<ctxVars, decVars, libVars>>

DeviceCopy ==
  /\ stream # <<>>
  /\ Head(stream).op = "copy"
  /\ lwe_ct_out_array' = d_lwe_ct_out_array
  /\ copied' = copied \cup {<<Head(stream).r, Head(stream).s>>}
  /\ stream' = Tail(stream)
  /\ UNCHANGED <<paramVars, number_of_sm, hpc, r, s, j, d_lwe_ct_out_array, launched,
                 issued, compared, cmpCount, lastCmp>>
  /\ UNCHANGED <<ctxVars, decVars, libVars>>

(***************************************************************************)
(*        The decode step on one scalar: encode, add noise, decode         *)
(***************************************************************************)
\* message_modulus * carry_modulus: the powers of two that leave delta >= 1.
Payloads == {Pow2(i) : i \in 0..(Width - 1)}

Abs(x) == IF x < 0 THEN -x ELSE x

InitDecode ==
  /\ dpc = "start"
  /\ dec_payload \in Payloads
  /\ message \in 0..(dec_payload - 1)
  /\ noise \in {e \in (-Modulus)..Modulus : 2 * Abs(e) <= Delta(dec_payload)}
  /\ plaintext = 0
  /\ decrypted = 0
  /\ decoded = 0

IdleDecode ==
  /\ dpc = "idle"
  /\ dec_payload = 1
  /\ message = 0
  /\ noise = 0
  /\ plaintext = 0
  /\ decrypted = 0
  /\ decoded = 0

\* The plaintext of a message: the message scaled by delta.
Encode ==
  /\ dpc = "start"
  /\ plaintext' = (message * Delta(dec_payload)) % Modulus
  /\ dpc' = "encoded"
  /\ UNCHANGED <<dec_payload, message, noise, decrypted, decoded>>
  /\ UNCHANGED <<ctxVars, testVars, libVars>>

\* Decryption yields the plaintext plus the noise, as a Width-bit word.
Decrypt ==
  /\ dpc = "encoded"
  /\ decrypted' = (plaintext + noise) % Modulus
  /\ dpc' = "decrypted"
  /\ UNCHANGED <<dec_payload, message, noise, plaintext, decoded>>
  /\ UNCHANGED <<ctxVars, testVars, libVars>>

\* The three decode statements of the tests.
DecodeStep ==
  /\ dpc = "decrypted"
  /\ decoded' = Decode(decrypted, Delta(dec_payload))
  /\ dpc' = "decoded"
  /\ UNCHANGED <<dec_payload, message, noise, plaintext, decrypted>>
  /\ UNCHANGED <<ctxVars, testVars, libVars>>

(***************************************************************************)
(*                            LibrarySupport                               *)
(***************************************************************************)
MaxParams == 2

FuncNames == {"main", "aux"}
NoFuncName == "<none>"
OutputPaths == {"out/a", "out/b"}

NoResult == [libraryPath |-> "", funcName |-> NoFuncName]
NoParam == [functionName |-> NoFuncName, tag |-> 0]
NoLambda == [funcName |-> NoFuncName, libraryPath |-> ""]

EngineError == "engine.compile failed"
NeedFuncName == "Need to have a funcname to compile library"
LambdaLoadError == "ServerLambda::load failed"
ParamsLoadError == "ClientParameters::load failed"
CannotFind == "ClientLambda: cannot find function"

\* Mutant of Compile: the function name is checked before the engine runs.
CompileFuncNameFirst(engineOk, fn, path) ==
  IF fn = NoFuncName
  THEN [isError |-> TRUE, msg |-> NeedFuncName, value |-> NoResult,
        engineRan |-> FALSE]
  ELSE IF ~engineOk
  THEN [isError |-> TRUE, msg |-> EngineError, value |-> NoResult,
        engineRan |-> TRUE]
  ELSE [isError |-> FALSE, msg |-> "",
        value |-> [libraryPath |-> path, funcName |-> fn], engineRan |-> TRUE]

\* LibrarySupport::compile, given whether engine.compile succeeded and
\* options.clientParametersFuncName.
Compile(engineOk, fn, path) ==
  IF ~engineOk
  THEN [isError |-> TRUE, msg |-> EngineError, value |-> NoResult,
        engineRan |-> TRUE]
  ELSE IF fn = NoFuncName
  THEN [isError |-> TRUE, msg |-> NeedFuncName, value |-> NoResult,
        engineRan |-> TRUE]
  ELSE [isError |-> FALSE, msg |-> "",
        value |-> [libraryPath |-> path, funcName |-> fn], engineRan |-> TRUE]

\* LibrarySupport::loadServerLambda, given what ServerLambda::load returned.
LoadServerLambda(lambda) ==
  IF lambda.has_error
  THEN [isError |-> TRUE, msg |-> lambda.mesg, value |-> NoLambda]
  ELSE [isError |-> FALSE, msg |-> "", value |-> lambda.value]

\* Mutant of FindIf: the last matching entry instead of the first.
RECURSIVE FindIfLast(_, _, _)
FindIfLast(params, fn, i) ==
  IF i > Len(params) THEN Len(params) + 1
  ELSE IF FindIfLast(params, fn, i + 1) <= Len(params)
       THEN FindIfLast(params, fn, i + 1)
       ELSE IF params[i].functionName = fn THEN i ELSE Len(params) + 1

\* llvm::find_if over the parameter list: the position of the first entry
\* from position i on whose functionName is fn, Len + 1 for end().
RECURSIVE FindIf(_, _, _)
FindIf(params, fn, i) ==
  IF i > Len(params) THEN Len(params) + 1
  ELSE IF params[i].functionName = fn THEN i
  ELSE FindIf(params, fn, i + 1)

\* LibrarySupport::loadClientParameters, given what ClientParameters::load
\* returned.
LoadClientParameters(params, fn) ==
  IF params.has_error
  THEN [isError |-> TRUE, msg |-> params.mesg, value |-> NoParam]
  ELSE IF FindIf(params.value, fn, 1) = Len(params.value) + 1
  THEN [isError |-> TRUE, msg |-> CannotFind, value |-> NoParam]
  ELSE [isError |-> FALSE, msg |-> "",
        value |-> params.value[FindIf(params.value, fn, 1)]]

ParamEntries == [functionName : FuncNames, tag : 1..2]

SeqsUpTo(S, n) == UNION {[1..k -> S] : k \in 0..n}

\* What ClientParameters::load may return.
ParamsLoads ==
  {[has_error |-> TRUE, mesg |-> ParamsLoadError, value |-> <<>>]}
    \cup {[has_error |-> FALSE, mesg |-> "", value |-> l]
            : l \in SeqsUpTo(ParamEntries, MaxParams)}

\* What ServerLambda::load(funcName, libraryPath) may return.
LambdaLoads(res) ==
  {[has_error |-> TRUE, mesg |-> LambdaLoadError, value |-> NoLambda],
   [has_error |-> FALSE, mesg |-> "",
    value |-> [funcName |-> res.funcName, libraryPath |-> res.libraryPath]]}

NoRet == [isError |-> FALSE, msg |-> "", value |-> NoResult, engineRan |-> FALSE]

InitLibrary ==
  /\ outputPath \in OutputPaths
  /\ result = NoResult
  /\ compileRet = [called |-> FALSE, engineOk |-> FALSE, fn |-> NoFuncName,
                   out |-> NoRet]
  /\ lambdaRet = [called |-> FALSE,
                  in |-> [has_error |-> FALSE, mesg |-> "", value |-> NoLambda],
                  out |-> [isError |-> FALSE, msg |-> "", value |-> NoLambda]]
  /\ clientRet = [called |-> FALSE, fn |-> NoFuncName,
                  in |-> [has_error |-> FALSE, mesg |-> "", value |-> <<>>],
                  out |-> [isError |-> FALSE, msg |-> "", value |-> NoParam]]

IdleLibrary ==
  /\ outputPath = "out/a"
  /\ result = NoResult
  /\ compileRet = [called |-> FALSE, engineOk |-> FALSE, fn |-> NoFuncName,
                   out |-> NoRet]
  /\ lambdaRet = [called |-> FALSE,
                  in |-> [has_error |-> FALSE, mesg |-> "", value |-> NoLambda],
                  out |-> [isError |-> FALSE, msg |-> "", value |-> NoLambda]]
  /\ clientRet = [called |-> FALSE, fn |-> NoFuncName,
                  in |-> [has_error |-> FALSE, mesg |-> "", value |-> <<>>],
                  out |-> [isError |-> FALSE, msg |-> "", value |-> NoParam]]

\* A caller compiles a program; on success it holds the result.
CallCompile ==
  /\ \E engineOk \in BOOLEAN, fn \in FuncNames \cup {NoFuncName} :
       /\ compileRet' = [called |-> TRUE, engineOk |-> engineOk, fn |-> fn,
                         out |-> Compile(engineOk, fn, outputPath)]
       /\ result' = IF Compile(engineOk, fn, outputPath).isError THEN result
                    ELSE Compile(engineOk, fn, outputPath).value
  /\ UNCHANGED <<outputPath, lambdaRet, clientRet>>
  /\ UNCHANGED <<ctxVars, testVars, decVars>>

\* A caller loads the server lambda of the result it holds.
CallLoadServerLambda ==
  /\ result # NoResult
  /\ \E lambda \in LambdaLoads(result) :
       lambdaRet' = [called |-> TRUE, in |-> lambda,
                     out |-> LoadServerLambda(lambda)]
  /\ UNCHANGED <<outputPath, result, compileRet, clientRet>>
  /\ UNCHANGED <<ctxVars, testVars, decVars>>

\* A caller loads the client parameters of the result it holds.
CallLoadClientParameters ==
  /\ result # NoResult
  /\ \E params \in ParamsLoads :
       clientRet' = [called |-> TRUE, fn |-> result.funcName, in |-> params,
                     out |-> LoadClientParameters(params, result.funcName)]
  /\ UNCHANGED <<outputPath, result, compileRet, lambdaRet>>
  /\ UNCHANGED <<ctxVars, testVars, decVars>>

(***************************************************************************)
(*                          The specifications                             *)
(***************************************************************************)
NextContext ==
  \E t \in Threads :
    \/ GetKeyswitchKey(t)
    \/ Call(t)
    \/ Find(t)
    \/ Clone(t)
    \/ InsertBegin(t)
    \/ InsertEnd(t)
    \/ Return(t)

InitRuntimeContext == InitContext /\ IdleTest /\ IdleDecode /\ IdleLibrary

SpecContext == InitRuntimeContext /\ [][NextContext]_vars

NextTest ==
  \/ Guard
  \/ Launch
  \/ CopyBack
  \/ ReadResult
  \/ DeviceKernel
  \/ DeviceCopy

InitBootstrapTest == InitTest /\ IdleContext /\ IdleDecode /\ IdleLibrary

SpecBootstrapTest == InitBootstrapTest /\ [][NextTest]_vars

NextDecode ==
  \/ Encode
  \/ Decrypt
  \/ DecodeStep

InitDecodeScalar == InitDecode /\ IdleContext /\ IdleTest /\ IdleLibrary

SpecDecode == InitDecodeScalar /\ [][NextDecode]_vars

NextLibrary ==
  \/ CallCompile
  \/ CallLoadServerLambda
  \/ CallLoadClientParameters

InitLibrarySupport == InitLibrary /\ IdleContext /\ IdleTest /\ IdleDecode

SpecLibrary == InitLibrarySupport /\ [][NextLibrary]_vars

(***************************************************************************)
(*                               Claims                                    *)
(***************************************************************************)
Quiescent == \A t \in Threads : pc[t] = "idle"

NamesServed == {ThreadName(t) : t \in {u \in Threads : calls[u] > 0}}

\* C1: in a parallel build, under every interleaving of the find / clone /
\* insert steps, at most one clone of the base key is ever created per
\* thread name, and whenever no call is in progress the map holds exactly
\* the base entry plus one entry, a clone made for it, per thread name that
\* called.
C1_ExactlyOneClonePerIdentity ==
  (parallel /\ ~crashed) =>
     /\ \A n \in ThreadNames : ClonesMadeFor(n) <= 1
     /\ Quiescent =>
          /\ DOMAIN bsk = {BASE_CONTEXT_BSK} \cup NamesServed
          /\ bsk[BASE_CONTEXT_BSK] = BaseKey
          /\ \A n \in NamesServed : bsk[n] = CloneKey(n, 1)

\* C6: in a parallel build, a call of get_bootstrap_key that starts after
\* its thread name obtained a key never reaches the clone or insert steps,
\* and returns the key first returned for that name.
C6_LaterCallsReuseClone ==
  (parallel /\ ~crashed) =>
     \A t \in Threads :
        late[t] =>
          /\ pc[t] \notin {"clone", "insert", "inserting"}
          /\ (pc[t] = "idle" => ret[t] = first[ThreadName(t)])

\* C10: every step of get_bootstrap_key or get_keyswitch_key that leaves the
\* process running keeps every entry of the key map as it is, adds at most
\* one entry, keyed by the name of a thread that is inserting and holding a
\* clone, adds none in a non-parallel build where the base key is what is
\* returned, never returns a null key, and never changes ksk.
C10_Step ==
  crashed' \/
    /\ \A k \in DOMAIN bsk : k \in DOMAIN bsk' /\ bsk'[k] = bsk[k]
    /\ Cardinality(DOMAIN bsk' \ DOMAIN bsk) <= 1
    /\ \A k \in DOMAIN bsk' \ DOMAIN bsk :
         /\ bsk'[k].kind = "clone"
         /\ \E t \in Threads : pc[t] = "inserting" /\ ThreadName(t) = k
    /\ \A t \in Threads : ret'[t] # ret[t] => ret'[t] # NullKey
    /\ ~parallel =>
         /\ bsk' = bsk
         /\ \A t \in Threads : ret'[t] # ret[t] => ret'[t] = bsk[BASE_CONTEXT_BSK]
    /\ ksk' = ksk

C10_FrameEffect == [][C10_Step]_vars

\* C2: every host read of lwe_ct_out_array by the j loop of an (r, s)
\* iteration happens after the device completed the copy-back enqueued for
\* that iteration.
C2_ReadAfterCopy == lastCmp.fresh

\* C4: every EXPECT_EQ of either test finds the decoded output equal to
\* plaintext / delta.
C4_RoundTrip == lastCmp.ok

\* Not a claim: a read that follows its copy-back does decode correctly.
FreshReadsDecode == lastCmp.fresh => lastCmp.ok

LowLatencyLimit ==
  (number_of_sm * 4) \div ((glwe_dimension + 1) * pbs_level)

\* C3: once the guard of the low-latency test has run, the test is skipped
\* if and only if number_of_inputs exceeds
\* (number_of_sm * 4) / ((glwe_dimension + 1) * pbs_level); until then and
\* when skipped nothing was ever enqueued on the stream and no kernel of
\* either variant was launched; every launch of the test is a low-latency
\* launch within the limit; and a test that ran to its end launched once per
\* (r, s).
C3_LowLatencyGuard ==
  test = "low_latency_bootstrap" =>
     /\ hpc # "guard" =>
          ((hpc = "skipped") <=> (number_of_inputs > LowLatencyLimit))
     /\ hpc \in {"guard", "skipped"} =>
          (issued = 0 /\ stream = <<>> /\ launched = {} /\ cmpCount = 0)
     /\ \A l \in launched :
          /\ l.kernel = "low_latency_bootstrap"
          /\ number_of_inputs <= LowLatencyLimit
     /\ hpc = "done" => Cardinality(launched) = repetitions * samples

\* C3 witness: the guard skipped a batch one larger than a non-zero limit.
C3_Skipped ==
  /\ test = "low_latency_bootstrap"
  /\ hpc = "skipped"
  /\ LowLatencyLimit >= 1
  /\ number_of_inputs = LowLatencyLimit + 1

C5_DecodeRoundsToNearest ==
  (dpc = "decoded" /\ 2 * Abs(noise) < Delta(dec_payload)) => decoded = message

\* C5 witness: m = 0 with negative noise, where decrypted wraps around.
C5_ZeroWithNegativeNoise ==
  /\ dpc = "decoded"
  /\ message = 0
  /\ noise < 0
  /\ 2 * Abs(noise) < Delta(dec_payload)
  /\ decrypted = Modulus + noise
  /\ decoded = 0

\* C8: compile returns a result if and only if the engine compilation
\* succeeded and a function name is set; the result carries outputPath and
\* that name; otherwise it returns an error and no result: the engine's
\* error when the engine failed, and else the missing-name error, returned
\* after the engine compilation ran.
C8_Compile ==
  compileRet.called =>
     /\ compileRet.out.isError
          <=> ~(compileRet.engineOk /\ compileRet.fn # NoFuncName)
     /\ ~compileRet.out.isError =>
          compileRet.out.value =
            [libraryPath |-> outputPath, funcName |-> compileRet.fn]
     /\ compileRet.out.isError => compileRet.out.value = NoResult
     /\ ~compileRet.engineOk => compileRet.out.msg = EngineError
     /\ (compileRet.engineOk /\ compileRet.fn = NoFuncName) =>
          (compileRet.out.msg = NeedFuncName /\ compileRet.out.engineRan)

\* C8 witness: the engine failed and no function name was set.
C8_EngineErrorFirst ==
  /\ compileRet.called
  /\ ~compileRet.engineOk
  /\ compileRet.fn = NoFuncName
  /\ compileRet.out.isError
  /\ compileRet.out.msg = EngineError

Matches(l, fn) == {i \in 1..Len(l) : l[i].functionName = fn}

\* C9: loadClientParameters returns an error when the parameter file cannot
\* be loaded or no entry carries result.funcName, and otherwise the entry of
\* least position carrying it; loadServerLambda returns the loaded lambda, or
\* an error carrying the load's message.
C9_Load ==
  /\ clientRet.called =>
       /\ clientRet.out.isError
            <=> (clientRet.in.has_error
                   \/ Matches(clientRet.in.value, clientRet.fn) = {})
       /\ clientRet.out.isError =>
            (clientRet.out.value = NoParam /\ clientRet.out.msg # "")
       /\ ~clientRet.out.isError =>
            \E i \in Matches(clientRet.in.value, clientRet.fn) :
               /\ \A k \in Matches(clientRet.in.value, clientRet.fn) : i <= k
               /\ clientRet.out.value = clientRet.in.value[i]
  /\ lambdaRet.called =>
       /\ lambdaRet.out.isError <=> lambdaRet.in.has_error
       /\ lambdaRet.out.isError => lambdaRet.out.msg = lambdaRet.in.mesg
       /\ ~lambdaRet.out.isError => lambdaRet.out.value = lambdaRet.in.value

\* C9 witness: two different entries carry the name; the first is returned.
C9_FirstOfTwoMatches ==
  /\ clientRet.called
  /\ ~clientRet.in.has_error
  /\ Cardinality(Matches(clientRet.in.value, clientRet.fn)) = 2
  /\ clientRet.in.value[1] # clientRet.in.value[2]
  /\ clientRet.out.value = clientRet.in.value[1]

=============================================================================
